---- MODULE Spec2Model ----
(***************************************************************************)
(* RavenNews: RSS ingestion.  Model of the canonical item (rss/mod.rs),    *)
(* the three dialect parsers (rss/bloomberg.rs, rss/coindesk.rs,           *)
(* rss/reuters.rs), the writer insert_rss_item, the run                    *)
(* fetch_all_and_insert and the scheduler run_scheduler (ingest/mod.rs).   *)
(*                                                                         *)
(* Text is a sequence of symbols.  A symbol is one character, except the   *)
(* two CDATA markers and the fixed labels, which are atomic symbols that   *)
(* no concatenation of the other symbols of the model spells.  A byte      *)
(* string is the same sequence, so concatenation of byte strings is \o.    *)
(* Option<T>: None is <<>>, Some(v) is <<v>>.                              *)
(***************************************************************************)
EXTENDS Integers, Sequences, FiniteSets, TLC

VARIABLES
    built,        \* SpecId: items constructed by RssItem::new, in order
    rows,         \* the table warehouse.rss_items, in insertion order
    wpc,          \* SpecWriter: position of each concurrent writer call
    witem,        \* SpecWriter: the item each caller passes
    wsnap,        \* SpecWriter: ids present when the call was issued
    log,          \* SpecWriter: completed calls, in completion order
    pdialect,     \* SpecParse: the parser called
    pnow,         \* SpecParse: the reading Utc::now() gives during the call
    pst,          \* SpecParse: the locals of parse, and its result
    ptok,         \* SpecParse: the event read last
    pseen,        \* SpecParse: field elements read since the last <item>
    pdate,        \* SpecParse: text of the last <pubDate> read since the last <item>
    popen,        \* SpecParse: <item> elements open in the document
    pentry,       \* SpecParse: "open" after <item>, "closing" at its own </item>
    pprev,        \* SpecParse: items before the last event was handled
    pcount,       \* SpecParse: events read
    pbroken,      \* SpecParse: the reader has reported an error, to parse or to read_text
    pnow2,        \* SpecTwice: the reading Utc::now() gives during a second call
    pst2,         \* SpecTwice: the locals and result of the second call, on the same events
    pclocked,     \* SpecTwice: an item was pushed whose publish date did not parse
    tin,          \* SpecText: the text strip_cdata is called with
    tout,         \* SpecText: what strip_cdata returned, once it has
    docs,         \* the document each feed URL serves
    status,       \* the HTTP status each feed URL answers with
    active,       \* the active flag the operator means each feed to have
    mode,         \* the command given: "run" (scheduler) or "fetch_once"
    pc,           \* run_scheduler: "tick_wait", or "fetch" during a run
    feedIdx,      \* fetch_all_and_insert: the fetch function to call next
    due,          \* interval ticks that have come due and are not consumed
    elapsed,      \* interval ticks that have come due since the start
    runsStarted,  \* calls of fetch_all_and_insert made by the scheduler
    runsFinished, \* calls of fetch_all_and_insert that have returned
    lastResult,   \* what the last finished run returned: "ok" or "err"
    fetched,      \* feeds the current or last run has called the fetch function of
    written,      \* feeds whose items the current or last run wrote in full
    failed,       \* feeds whose fetch function failed in that run
    parsedFeeds,  \* feeds whose response body that run passed to parser.parse
    lastFeed,     \* the feed whose fetch function returned last in that run, or 0
    lastCalls,    \* the items that fetch function passed to insert_rss_item, in order
    firstRows,    \* the table when the first run returned, if it returned Ok
    cancelled,    \* a cancellation signal has been delivered to the process
    overrun       \* an interval deadline has passed while a run was in flight

idVars == <<built>>
writerVars == <<wpc, witem, wsnap, log>>
parseVars == <<pdialect, pnow, pst, ptok, pseen, pdate, popen, pentry, pprev, pcount, pbroken,
               pnow2, pst2, pclocked>>
textVars == <<tin, tout>>
cfgVars == <<docs, status, active, mode>>
runVars == <<cfgVars, pc, feedIdx, due, elapsed, runsStarted, runsFinished,
             lastResult, fetched, written, failed, parsedFeeds, lastFeed, lastCalls,
             firstRows, cancelled, overrun>>
vars == <<built, rows, wpc, witem, wsnap, log,
          pdialect, pnow, pst, ptok, pseen, pdate, popen, pentry, pprev, pcount, pbroken,
          pnow2, pst2, pclocked, tin, tout,
          docs, status, active, mode,
          pc, feedIdx, due, elapsed, runsStarted, runsFinished,
          lastResult, fetched, written, failed, parsedFeeds, lastFeed, lastCalls,
          firstRows, cancelled, overrun>>

----------------------------------------------------------------------------
(* Bounds *)

MaxNow == 3        \* clock readings 1..MaxNow
NumWriters == 2    \* concurrent callers of the writer
MaxCalls == 3      \* writer calls issued in SpecWriter
MaxEvents == 9     \* events read by one parse call in SpecParse
MaxDepth == 2      \* <item> elements open at once in a document
MaxTicks == 2      \* interval ticks that come due in Spec
MaxText == 4       \* symbols of a text given to strip_cdata in SpecText
MaxTwice == 7      \* events of the document parsed twice in SpecTwice

----------------------------------------------------------------------------
(* Option *)

None == <<>>
Some(v) == <<v>>
IsSome(o) == Len(o) = 1
\* Option::unwrap_or_else
UnwrapOrElse(o, d) == IF IsSome(o) THEN o[1] ELSE d

----------------------------------------------------------------------------
(* Canonical item, rss/mod.rs *)

\* Instants that occur as publish dates of feed entries
Dates == {1, 2}

\* DateTime<Utc>::to_rfc3339: one rendering per instant
to_rfc3339(t) == <<"T" \o ToString(t)>>

\* Sha256 digest truncated to its first 16 bytes, taken as collision free:
\* the digest is determined by, and determines, the bytes hashed.
Sha256First16(bytes) == <<"sha256/16">> \o bytes

\* A separator byte is hashed between the fields.
generate_rss_item_id_Separated(source, title, published_at) ==
    Sha256First16(source \o <<"|">> \o title \o <<"|">> \o to_rfc3339(published_at))

generate_rss_item_id(source, title, published_at) ==
    Sha256First16(source \o title \o to_rfc3339(published_at))

\* The link is hashed too.
ItemId_LinkHashed(source, title, link, published_at) ==
    Sha256First16(source \o title \o link \o to_rfc3339(published_at))

\* The id RssItem::new gives: the call at rss/mod.rs:45
ItemId(source, title, link, published_at) ==
    generate_rss_item_id(source, title, published_at)

\* published_at is always the clock reading.
RssItem_new_Stamped(source_name, title, link, summary, published_at, now) ==
    [id |-> ItemId(source_name, title, link, now),
     source |-> source_name,
     title |-> title,
     link |-> link,
     summary |-> summary,
     published_at |-> now]

\* RssItem::new(source_name, title, link, summary, published_at); now is the
\* reading Utc::now() gives when published_at is None.
RssItem_new(source_name, title, link, summary, published_at, now) ==
    LET published_at_dt == UnwrapOrElse(published_at, now)
    IN  [id |-> ItemId(source_name, title, link, published_at_dt),
         source |-> source_name,
         title |-> title,
         link |-> link,
         summary |-> summary,
         published_at |-> published_at_dt]

----------------------------------------------------------------------------
(* SpecId: RssItem::new applied to inputs from small sets *)

IdSources == {<<"a">>, <<"a", "b">>}
IdTitles == {<<"c">>, <<"b", "c">>}
IdLinks == {<<"l">>, <<"m">>}
IdSummaries == {None, Some(<<"s">>)}
IdDates == {None} \cup {Some(t) : t \in Dates}

NewItem ==
    /\ Len(built) < 2
    /\ \E s \in IdSources, t \in IdTitles, l \in IdLinks,
          m \in IdSummaries, d \in IdDates, now \in 1..MaxNow :
          built' = Append(built, RssItem_new(s, t, l, m, d, now))
    /\ UNCHANGED <<rows, writerVars, parseVars, textVars, runVars>>

----------------------------------------------------------------------------
(* Text helpers, rss/mod.rs *)

CdataOpen == "<![CDATA["
CdataClose == "]]>"
IsSpace(ch) == ch = " "

RECURSIVE TrimStart(_)
\* str::trim_start
TrimStart(t) ==
    IF t # <<>> /\ IsSpace(Head(t)) THEN TrimStart(Tail(t)) ELSE t

RECURSIVE TrimEnd(_)
\* str::trim_end
TrimEnd(t) ==
    IF t # <<>> /\ IsSpace(t[Len(t)])
    THEN TrimEnd(SubSeq(t, 1, Len(t) - 1))
    ELSE t

\* str::trim
Trim(t) == TrimEnd(TrimStart(t))

RECURSIVE TrimStartMatches(_, _)
\* str::trim_start_matches: every leading repetition of the pattern goes
TrimStartMatches(t, pat) ==
    IF t # <<>> /\ Head(t) = pat THEN TrimStartMatches(Tail(t), pat) ELSE t

RECURSIVE TrimEndMatches(_, _)
\* str::trim_end_matches: every trailing repetition of the pattern goes
TrimEndMatches(t, pat) ==
    IF t # <<>> /\ t[Len(t)] = pat
    THEN TrimEndMatches(SubSeq(t, 1, Len(t) - 1), pat)
    ELSE t

strip_cdata(text) ==
    LET t == Trim(text)
    IN  IF t # <<>> /\ Head(t) = CdataOpen /\ t[Len(t)] = CdataClose
        THEN TrimEndMatches(TrimStartMatches(t, CdataOpen), CdataClose)
        ELSE text

----------------------------------------------------------------------------
(* SpecText: strip_cdata applied to a text over a letter, the space and the
   two CDATA markers *)

TextSymbols == {"x", " ", CdataOpen, CdataClose}
Texts == UNION {[1..n -> TextSymbols] : n \in 0..MaxText}

StripCdata ==
    /\ tout = None
    /\ tout' = Some(strip_cdata(tin))
    /\ UNCHANGED <<tin, built, rows, writerVars, parseVars, runVars>>

----------------------------------------------------------------------------
\* Publish-date texts that are RFC 2822 date-times, and the instant each
\* denotes in UTC; "r1z" is instant 1 written with another zone offset.
Rfc2822 == [r1 |-> 1, r1z |-> 1, r2 |-> 2]

\* DateTime::parse_from_rfc2822(..).map(|dt| dt.with_timezone(&Utc)): Some
\* instant, or None for a text that is no RFC 2822 date-time
parse_from_rfc2822(text) ==
    IF Len(text) = 1 /\ text[1] \in DOMAIN Rfc2822
    THEN Some(Rfc2822[text[1]])
    ELSE None

----------------------------------------------------------------------------
(* Dialect parsers.  An event is what Reader::read_event_into returns:
     start_item   Start of <item>
     end_item     End of </item>
     field        Start of <name>, with the text Reader::read_text returns
                  for it (the element is read through its end tag)
     unterminated Start of <name> whose end tag is missing: read_text fails
                  and the reader is at the end of the input
     other        any event the parsers ignore: Text, Empty, Comment, the
                  Start and End of an element with another name
     malformed    Err(e)
     eof          Eof
   creator and category are read by the parsers and dropped by
   into_rss_item; they are events of kind other here. *)

Dialects == {"bloomberg", "coindesk", "reuters"}

FieldNames == {"title", "link", "description", "pubDate"}

Tok(k, name, text) == [k |-> k, name |-> name, text |-> text]

\* The texts read_text returns for the field elements; a title may be
\* whitespace only (<title> </title>) and a link empty (<link></link>).
FieldTexts ==
    [title |-> {<<"a">>, <<"b">>, <<" ">>},
     link |-> {<<"l">>, <<>>},
     description |-> {<<"s">>},
     pubDate |-> {<<"r1">>, <<"x">>}]

Events ==
    {Tok(k, "", <<>>) : k \in {"start_item", "end_item", "other", "malformed", "eof"}}
    \cup UNION {{Tok("field", n, t) : t \in FieldTexts[n]} : n \in FieldNames}
    \cup {Tok("unterminated", n, <<>>) : n \in FieldNames}

\* The locals of parse at its start
ParseStart ==
    [in_item |-> FALSE, title |-> None, link |-> None, description |-> None,
     published_at |-> None, items |-> <<>>, result |-> "running"]

\* into_rss_item of the dialect's item: the fixed source label
DialectSource(d) == <<d>>

\* The fields captured for the entry before are kept.
OnItemStart_NoReset(st) == [st EXCEPT !.in_item = TRUE]

\* Start of <item>
OnItemStart(st) ==
    [st EXCEPT !.in_item = TRUE, !.title = None, !.link = None,
               !.description = None, !.published_at = None]

\* The field is captured whether or not an item is open.
OnField_Anywhere(st, name, read) ==
    CASE name = "title" ->
           [st EXCEPT !.title = IF IsSome(read) THEN Some(strip_cdata(read[1])) ELSE None]
      [] name = "link" -> [st EXCEPT !.link = read]
      [] name = "description" ->
           [st EXCEPT !.description =
               IF IsSome(read) THEN Some(strip_cdata(read[1])) ELSE None]
      [] name = "pubDate" -> [st EXCEPT !.published_at = read]

\* Start of a field element: captured inside an item only; read is the
\* Option read_text(..).ok() gives
OnField(st, name, read) ==
    IF ~ st.in_item THEN st
    ELSE CASE name = "title" ->
                [st EXCEPT !.title = IF IsSome(read) THEN Some(strip_cdata(read[1])) ELSE None]
           [] name = "link" -> [st EXCEPT !.link = read]
           [] name = "description" ->
                [st EXCEPT !.description =
                    IF IsSome(read) THEN Some(strip_cdata(read[1])) ELSE None]
           [] name = "pubDate" -> [st EXCEPT !.published_at = read]

\* The publish date is not required: RssItem::new would supply the clock.
Complete_DateOptional(st) == IsSome(st.title) /\ IsSome(st.link)

\* An entry whose publish date is no RFC 2822 date-time is dropped.
Complete_DateParses(st) ==
    /\ IsSome(st.title) /\ IsSome(st.link) /\ IsSome(st.published_at)
    /\ parse_from_rfc2822(st.published_at[1]) # None

\* if let (Some(title), Some(link), Some(published_at_str)) = ...
Complete(st) ==
    IsSome(st.title) /\ IsSome(st.link) /\ IsSome(st.published_at)

\* The publish date is not passed on: RssItem::new reads the clock.
BuildItem_ClockDate(d, st, now) ==
    RssItem_new(DialectSource(d), st.title[1], st.link[1], st.description, None, now)

\* The item pushed at the end of a complete entry
BuildItem(d, st, now) ==
    LET date == IF IsSome(st.published_at)
                THEN parse_from_rfc2822(st.published_at[1])
                ELSE None
        published_dt == UnwrapOrElse(date, now)
    IN  RssItem_new(DialectSource(d), st.title[1], st.link[1], st.description,
                    Some(published_dt), now)

\* The item is put in front of the items built so far.
Push_Front(items, item) == <<item>> \o items

\* items.push(item)
Push(items, item) == Append(items, item)

\* End of </item>
OnItemEnd(d, st, now) ==
    LET pushed == IF Complete(st)
                  THEN [st EXCEPT !.items = Push(st.items, BuildItem(d, st, now))]
                  ELSE st
    IN  CASE d = "bloomberg" ->
               \* bloomberg.rs:112: only inside an item; the fields are cloned
               IF st.in_item THEN [pushed EXCEPT !.in_item = FALSE] ELSE st
          [] d = "coindesk" ->
               \* coindesk.rs:121-131: title, link and date are taken whether
               \* or not the entry is complete, the description only if it is
               [pushed EXCEPT !.in_item = FALSE, !.title = None, !.link = None,
                              !.published_at = None,
                              !.description = IF Complete(st) THEN None ELSE @]
          [] d = "reuters" ->
               \* reuters.rs:93-97: any </item>; the fields are cloned
               [pushed EXCEPT !.in_item = FALSE]

\* One turn of the loop of parse
ParseEvent(d, st, tok, now) ==
    CASE tok.k = "start_item" -> OnItemStart(st)
      [] tok.k = "field" -> OnField(st, tok.name, Some(tok.text))
      [] tok.k = "unterminated" -> OnField(st, tok.name, None)
      [] tok.k = "end_item" -> OnItemEnd(d, st, now)
      [] tok.k = "other" -> st
      [] tok.k = "malformed" -> [st EXCEPT !.result = "err"]
      [] tok.k = "eof" -> [st EXCEPT !.result = "ok"]

RECURSIVE ParseFrom(_, _, _, _)
\* The loop of parse over the events of a document; a document that does
\* not end in eof or malformed is read to its end and then meets eof.
ParseFrom(d, st, evs, now) ==
    IF st.result # "running" THEN st
    ELSE IF evs = <<>> THEN [st EXCEPT !.result = "ok"]
    ELSE ParseFrom(d, ParseEvent(d, st, Head(evs), now), Tail(evs), now)

\* RssParser::parse: Ok(items) as Some(items), Err as None
Parse(d, evs, now) ==
    LET st == ParseFrom(d, ParseStart, evs, now)
    IN  IF st.result = "ok" THEN Some(st.items) ELSE None

----------------------------------------------------------------------------
(* SpecParse: one parse call of one dialect; the reader supplies the events
   one at a time.  The reader checks end tags against the open elements, so
   </item> comes only while an <item> is open; after an unterminated element
   the input is exhausted and only Eof follows. *)

CanRead(tok) ==
    /\ pst.result = "running"
    /\ pcount < MaxEvents
    /\ tok.k = "end_item" => popen > 0
    /\ tok.k = "start_item" => popen < MaxDepth
    /\ ptok.k = "unterminated" => tok.k = "eof"

\* One turn of the loop of parse on the event the reader returns
ReadStep(tok) ==
    /\ CanRead(tok)
    /\ pst' = ParseEvent(pdialect, pst, tok, pnow)
    /\ ptok' = tok
    /\ pprev' = pst.items
    /\ pcount' = pcount + 1
    /\ pbroken' = (pbroken \/ tok.k = "malformed"
                            \/ (tok.k = "unterminated" /\ pst.in_item))
    /\ pseen' = CASE tok.k = "start_item" -> {}
                  [] tok.k = "field" -> pseen \cup {tok.name}
                  [] OTHER -> pseen
    /\ pdate' = CASE tok.k = "start_item" -> None
                  [] tok.k = "field" /\ tok.name = "pubDate" -> Some(tok.text)
                  [] OTHER -> pdate
    /\ popen' = CASE tok.k = "start_item" -> popen + 1
                  [] tok.k = "end_item" -> popen - 1
                  [] OTHER -> popen
    /\ pentry' = CASE tok.k = "start_item" -> "open"
                   [] tok.k = "end_item" /\ pentry = "open" -> "closing"
                   [] tok.k = "end_item" -> "none"
                   [] OTHER -> IF pentry = "closing" THEN "none" ELSE pentry
    /\ UNCHANGED <<pdialect, pnow, pnow2, built, rows, writerVars, textVars, runVars>>

ReadEvent(tok) == ReadStep(tok) /\ UNCHANGED <<pst2, pclocked>>

\* The same event is returned to a second call of the parser on the same
\* document, made at another time.
ReadBoth(tok) ==
    /\ pcount < MaxTwice
    /\ ReadStep(tok)
    /\ pst2' = ParseEvent(pdialect, pst2, tok, pnow2)
    /\ pclocked' = (pclocked \/ (/\ Len(pst'.items) > Len(pst.items)
                                  /\ parse_from_rfc2822(pst.published_at[1]) = None))

----------------------------------------------------------------------------
(* Writer: insert_rss_item(pool, item) -> Result<bool, sqlx::Error>.
   One statement, executed by the storage: the row is inserted unless a row
   with the item's id exists; the call returns whether a row was inserted.
   Callers are concurrent: a call is issued (Call) and later executed by the
   storage (Exec), or fails on a storage fault (Fault). *)

Writers == 1..NumWriters

\* The items callers pass: two share source, title and published_at (hence
\* the id) and differ in link and summary; the third has another title.
WItems ==
    {RssItem_new(<<"a">>, <<"c">>, <<"l">>, None, Some(1), 1),
     RssItem_new(<<"a">>, <<"c">>, <<"m">>, Some(<<"s">>), Some(1), 1),
     RssItem_new(<<"a">>, <<"b", "c">>, <<"l">>, None, Some(1), 1)}

RowIds(table) == {table[i].id : i \in 1..Len(table)}
RowsWithId(table, id) == {i \in 1..Len(table) : table[i].id = id}

\* Uniqueness decided by the application: the ids read when the call was issued.
ConflictBasis_Snapshot(c) == wsnap[c]

\* Uniqueness is decided by the storage when it executes the statement.
ConflictBasis(c) == RowIds(rows)

\* A plain insert, with no conflict clause and no unique key.
Inserted_Always(item, basis) == TRUE

\* Whether the statement inserts a row, given the ids it conflicts with
Inserted(item, basis) == item.id \notin basis

\* On a conflict the stored row is overwritten with the new item.
InsertStatement_Upsert(table, item, basis) ==
    IF Inserted(item, basis)
    THEN <<TRUE, Append(table, item)>>
    ELSE <<FALSE, [i \in 1..Len(table) |->
                      IF table[i].id = item.id THEN item ELSE table[i]]>>

\* The insert statement: <<returned bool, table afterwards>>
InsertStatement(table, item, basis) ==
    IF Inserted(item, basis)
    THEN <<TRUE, Append(table, item)>>
    ELSE <<FALSE, table>>

\* insert_rss_item called with no other caller in flight
insert_rss_item(table, item) == InsertStatement(table, item, RowIds(table))

InFlight == {c \in Writers : wpc[c] = "called"}

Call(c) ==
    /\ wpc[c] = "idle"
    /\ Len(log) + Cardinality(InFlight) < MaxCalls
    /\ \E it \in WItems : witem' = [witem EXCEPT ![c] = it]
    /\ wsnap' = [wsnap EXCEPT ![c] = RowIds(rows)]
    /\ wpc' = [wpc EXCEPT ![c] = "called"]
    /\ UNCHANGED <<rows, log, idVars, parseVars, textVars, runVars>>

Exec(c) ==
    /\ wpc[c] = "called"
    /\ LET r == InsertStatement(rows, witem[c], ConflictBasis(c))
       IN  /\ rows' = r[2]
           /\ log' = Append(log, [item |-> witem[c],
                                  result |-> IF r[1] THEN "true" ELSE "false",
                                  raced |-> (witem[c].id \in RowIds(rows)
                                             /\ witem[c].id \notin wsnap[c])])
    /\ wpc' = [wpc EXCEPT ![c] = "idle"]
    /\ UNCHANGED <<witem, wsnap, idVars, parseVars, textVars, runVars>>

\* sqlx::Error: connection or statement failure; nothing is inserted.
Fault(c) ==
    /\ wpc[c] = "called"
    /\ log' = Append(log, [item |-> witem[c], result |-> "err", raced |-> FALSE])
    /\ wpc' = [wpc EXCEPT ![c] = "idle"]
    /\ UNCHANGED <<rows, witem, wsnap, idVars, parseVars, textVars, runVars>>

----------------------------------------------------------------------------
(* Run and scheduler, ingest/mod.rs *)

\* The fetch functions, in the order fetch_all_and_insert calls them, each
\* with the parser it uses.
Feeds ==
    <<[name |-> "bloomberg_wealth", dialect |-> "bloomberg"],
      [name |-> "bloomberg_economics", dialect |-> "bloomberg"],
      [name |-> "bloomberg_markets", dialect |-> "bloomberg"],
      [name |-> "coindesk", dialect |-> "coindesk"],
      [name |-> "reuters_financial", dialect |-> "reuters"],
      [name |-> "reuters_events", dialect |-> "reuters"],
      [name |-> "reuters_secfilings", dialect |-> "reuters"]>>

FeedIds == 1..Len(Feeds)

Ev(k) == Tok(k, "", <<>>)
Entry(title, date) ==
    <<Ev("start_item"), Tok("field", "title", title), Tok("field", "link", <<"l">>),
      Tok("field", "pubDate", date), Ev("end_item")>>

\* Documents a feed URL may serve: one entry with an RFC 2822 date, one
\* entry with a date that does not parse, and an entry followed by a
\* malformed token.
DocGood == Entry(<<"a">>, <<"r1">>) \o <<Ev("eof")>>
DocBadDate == Entry(<<"b">>, <<"x">>) \o <<Ev("eof")>>
DocMalformed == Entry(<<"a">>, <<"r2">>) \o <<Ev("malformed")>>
DocTwo == Entry(<<"a">>, <<"r1z">>) \o Entry(<<"b">>, <<"r2">>) \o <<Ev("eof")>>
DocSet == {DocGood, DocBadDate, DocMalformed, DocTwo}

\* What the feed URLs serve: DocGood, except for one feed at most
DocAssignments ==
    {[f \in FeedIds |-> IF f = g THEN x ELSE DocGood] : g \in FeedIds, x \in DocSet}

\* The status of a response: 200, or 503 with the body the URL serves
Statuses == {200, 503}
\* StatusCode::is_success
IsSuccess(code) == code \in 200..299

\* What one feed URL answers and what the operator wants of the feed: every
\* feed serves DocGood with status 200 and is meant active, except one at most
Registries ==
    {[f \in FeedIds |-> IF f = g THEN r
                        ELSE [doc |-> DocGood, status |-> 200, active |-> TRUE]] :
        g \in FeedIds,
        r \in [doc : DocSet, status : Statuses, active : BOOLEAN]}

\* Utc::now() during a run: the clock in units of the tick interval
Now == elapsed

\* The feed's items replace the table.
InsertAll_Overwrite(table, items) == items

RECURSIVE InsertAll(_, _)
\* for item in &items { insert_rss_item(pool, item).await?; } with no fault
InsertAll(table, items) ==
    IF items = <<>> THEN table
    ELSE InsertAll(insert_rss_item(table, Head(items))[2], Tail(items))

\* The error is propagated out of run_scheduler.
AfterRun_Propagate(result) == IF result = "err" THEN "stopped" ELSE "tick_wait"

\* run_scheduler after fetch_all_and_insert returns: the error is printed
\* and the loop goes back to ticker.tick().await
AfterRun(result) == "tick_wait"

\* MissedTickBehavior::Skip: ticks missed during a run are dropped.
DueAfterTick_Skip(d) == 0

\* ticker.tick().await completes: one due tick is consumed; the ticks missed
\* during a long run stay due and fire back to back (the interval's default
\* MissedTickBehavior::Burst)
DueAfterTick(d) == d - 1

\* interval(Duration::from_secs(60)): the period of the ticker, in seconds
IntervalSecs == 60

\* The deadline that passed last, in seconds since run_scheduler was
\* started: deadline k is at (k - 1) * IntervalSecs, the first at the start
LastDeadline == (elapsed - 1) * IntervalSecs

\* The loop does not wait for the ticker.
TickReady_NoWait(d) == TRUE

\* ticker.tick().await completes when a tick is due
TickReady(d) == d > 0

\* An interval deadline passes, whatever the scheduler is doing.
TimerFires ==
    /\ elapsed < MaxTicks
    /\ elapsed' = elapsed + 1
    /\ due' = due + 1
    /\ overrun' = (overrun \/ pc = "fetch")
    /\ UNCHANGED <<cfgVars, pc, feedIdx, runsStarted, runsFinished, lastResult,
                   fetched, written, failed, parsedFeeds, lastFeed, lastCalls,
                   firstRows, cancelled,
                   built, rows, writerVars, parseVars, textVars>>

\* ticker.tick().await completes and fetch_all_and_insert is called.
Tick ==
    /\ pc = "tick_wait"
    /\ TickReady(due)
    /\ due' = DueAfterTick(due)
    /\ pc' = "fetch"
    /\ feedIdx' = 1
    /\ runsStarted' = runsStarted + 1
    /\ fetched' = {}
    /\ written' = {}
    /\ failed' = {}
    /\ parsedFeeds' = {}
    /\ lastFeed' = 0
    /\ lastCalls' = <<>>
    /\ UNCHANGED <<cfgVars, elapsed, runsFinished, lastResult, firstRows,
                   cancelled, overrun, built, rows, writerVars, parseVars, textVars>>

\* The error is printed and the process ends as after a run without error.
AfterFetchOnce_PrintOnly(result) == "exit_0"

\* handle_fetch_once after fetch_all_and_insert returns: exit(1) on an
\* error; otherwise main returns
AfterFetchOnce(result) == IF result = "err" THEN "exit_1" ELSE "exit_0"

\* fetch_all_and_insert returns result to its caller.
RunReturns(result) ==
    /\ pc' = IF mode = "fetch_once" THEN AfterFetchOnce(result) ELSE AfterRun(result)
    /\ lastResult' = result
    /\ runsFinished' = runsFinished + 1
    /\ firstRows' = IF runsFinished = 0 /\ result = "ok" THEN Some(rows') ELSE firstRows
    /\ feedIdx' = 1

\* One fetch function ends Ok and the next is called, or the run returns.
FeedOk(f) ==
    /\ written' = written \cup {f}
    /\ failed' = failed
    /\ IF f < Len(Feeds)
       THEN /\ feedIdx' = f + 1
            /\ UNCHANGED <<pc, lastResult, runsFinished, firstRows>>
       ELSE RunReturns("ok")

\* One fetch function ends Err: the ? operator of fetch_all_and_insert
\* returns the error at once.
FeedErr(f) ==
    /\ written' = written
    /\ failed' = failed \cup {f}
    /\ RunReturns("err")

\* reqwest::get(url).await?.text().await? fails: a transport error.
FetchFails(f) ==
    /\ pc = "fetch" /\ feedIdx = f
    /\ fetched' = fetched \cup {f}
    /\ parsedFeeds' = parsedFeeds
    /\ rows' = rows
    /\ lastFeed' = f
    /\ lastCalls' = <<>>
    /\ FeedErr(f)
    /\ UNCHANGED <<cfgVars, due, elapsed, runsStarted, cancelled, overrun,
                   built, writerVars, parseVars, textVars>>

\* The body is fetched and parser.parse(&xml)? returns an error.
ParseFails(f) ==
    /\ pc = "fetch" /\ feedIdx = f
    /\ Parse(Feeds[f].dialect, docs[f], Now) = None
    /\ fetched' = fetched \cup {f}
    /\ parsedFeeds' = parsedFeeds \cup {f}
    /\ rows' = rows
    /\ lastFeed' = f
    /\ lastCalls' = <<>>
    /\ FeedErr(f)
    /\ UNCHANGED <<cfgVars, due, elapsed, runsStarted, cancelled, overrun,
                   built, writerVars, parseVars, textVars>>

\* The body is fetched and parsed, and the first k items are inserted; the
\* insert of item k + 1 fails on a storage error.
InsertFails(f) ==
    /\ pc = "fetch" /\ feedIdx = f
    /\ LET parsed == Parse(Feeds[f].dialect, docs[f], Now)
       IN  /\ parsed # None
           /\ \E k \in 0..(Len(parsed[1]) - 1) :
                  /\ rows' = InsertAll(rows, SubSeq(parsed[1], 1, k))
                  /\ lastCalls' = SubSeq(parsed[1], 1, k + 1)
    /\ fetched' = fetched \cup {f}
    /\ parsedFeeds' = parsedFeeds \cup {f}
    /\ lastFeed' = f
    /\ FeedErr(f)
    /\ UNCHANGED <<cfgVars, due, elapsed, runsStarted, cancelled, overrun,
                   built, writerVars, parseVars, textVars>>

\* The body is fetched and parsed and every item is inserted.
FeedWritten(f) ==
    /\ pc = "fetch" /\ feedIdx = f
    /\ LET parsed == Parse(Feeds[f].dialect, docs[f], Now)
       IN  /\ parsed # None
           /\ rows' = InsertAll(rows, parsed[1])
           /\ lastCalls' = parsed[1]
    /\ fetched' = fetched \cup {f}
    /\ parsedFeeds' = parsedFeeds \cup {f}
    /\ lastFeed' = f
    /\ FeedOk(f)
    /\ UNCHANGED <<cfgVars, due, elapsed, runsStarted, cancelled, overrun,
                   built, writerVars, parseVars, textVars>>

\* A cancellation signal is delivered.  run_scheduler has no branch that
\* waits for one; main installs no handler.
Signal ==
    /\ ~ cancelled
    /\ cancelled' = TRUE
    /\ UNCHANGED <<cfgVars, pc, feedIdx, due, elapsed, runsStarted, runsFinished,
                   lastResult, fetched, written, failed, parsedFeeds, lastFeed,
                   lastCalls, firstRows, overrun,
                   built, rows, writerVars, parseVars, textVars>>

----------------------------------------------------------------------------
(* Specifications *)

IdIdle == built = <<>>

TextIdle == tin = <<>> /\ tout = None

WriterIdle ==
    /\ wpc = [c \in Writers |-> "idle"]
    /\ witem = [c \in Writers |-> <<>>]
    /\ wsnap = [c \in Writers |-> {}]
    /\ log = <<>>

ParseIdle ==
    /\ pdialect = "bloomberg" /\ pnow = 1 /\ pst = ParseStart
    /\ ptok = Tok("none", "", <<>>) /\ pseen = {} /\ pdate = None /\ popen = 0
    /\ pentry = "none" /\ pprev = <<>> /\ pcount = 0 /\ pbroken = FALSE
    /\ pnow2 = 1 /\ pst2 = ParseStart /\ pclocked = FALSE

\* Every feed answers 200 and is meant active.
AllServed ==
    /\ status = [f \in FeedIds |-> 200]
    /\ active = [f \in FeedIds |-> TRUE]

\* No run has been started.
NoRunYet ==
    /\ feedIdx = 1 /\ elapsed = 1
    /\ runsFinished = 0 /\ lastResult = "none"
    /\ fetched = {} /\ written = {} /\ failed = {} /\ parsedFeeds = {}
    /\ lastFeed = 0 /\ lastCalls = <<>>
    /\ firstRows = None /\ cancelled = FALSE /\ overrun = FALSE

RunIdle ==
    /\ docs = [f \in FeedIds |-> DocGood] /\ AllServed /\ mode = "run"
    /\ pc = "tick_wait" /\ due = 1 /\ runsStarted = 0
    /\ NoRunYet

InitId == IdIdle /\ rows = <<>> /\ WriterIdle /\ ParseIdle /\ TextIdle /\ RunIdle
NextId == NewItem
SpecId == InitId /\ [][NextId]_vars

InitWriter == IdIdle /\ rows = <<>> /\ WriterIdle /\ ParseIdle /\ TextIdle /\ RunIdle
NextWriter == \E c \in Writers : Call(c) \/ Exec(c) \/ Fault(c)
SpecWriter == InitWriter /\ [][NextWriter]_vars

InitParse ==
    /\ IdIdle /\ rows = <<>> /\ WriterIdle /\ TextIdle /\ RunIdle
    /\ pdialect \in Dialects /\ pnow \in 1..MaxNow /\ pst = ParseStart
    /\ ptok = Tok("none", "", <<>>) /\ pseen = {} /\ pdate = None /\ popen = 0
    /\ pentry = "none" /\ pprev = <<>> /\ pcount = 0 /\ pbroken = FALSE
    /\ pnow2 = 1 /\ pst2 = ParseStart /\ pclocked = FALSE
NextParse == \E tok \in Events : ReadEvent(tok)
SpecParse == InitParse /\ [][NextParse]_vars

\* Two calls of one parser on one document, the second at a later time
InitTwice ==
    /\ IdIdle /\ rows = <<>> /\ WriterIdle /\ TextIdle /\ RunIdle
    /\ pdialect \in Dialects /\ pst = ParseStart /\ pst2 = ParseStart
    /\ pnow \in 1..MaxNow /\ pnow2 \in 1..MaxNow /\ pnow < pnow2
    /\ ptok = Tok("none", "", <<>>) /\ pseen = {} /\ pdate = None /\ popen = 0
    /\ pentry = "none" /\ pprev = <<>> /\ pcount = 0 /\ pbroken = FALSE
    /\ pclocked = FALSE
NextTwice == \E tok \in Events : ReadBoth(tok)
SpecTwice == InitTwice /\ [][NextTwice]_vars

InitText ==
    /\ IdIdle /\ rows = <<>> /\ WriterIdle /\ ParseIdle /\ RunIdle
    /\ tin \in Texts /\ tout = None
NextText == StripCdata
SpecText == InitText /\ [][NextText]_vars

\* run_scheduler is started: the first tick of the interval is due at once.
Init ==
    /\ IdIdle /\ rows = <<>> /\ WriterIdle /\ ParseIdle /\ TextIdle
    /\ docs \in DocAssignments /\ AllServed /\ mode = "run"
    /\ pc = "tick_wait" /\ due = 1 /\ runsStarted = 0
    /\ NoRunYet
Next ==
    \/ TimerFires
    \/ Tick
    \/ Signal
    \/ \E f \in FeedIds : FetchFails(f)
    \/ \E f \in FeedIds : ParseFails(f)
    \/ \E f \in FeedIds : InsertFails(f)
    \/ \E f \in FeedIds : FeedWritten(f)
Spec == Init /\ [][Next]_vars

\* Commands::FetchOnce: handle_fetch_once calls fetch_all_and_insert once; no
\* interval is created.
InitOnce ==
    /\ IdIdle /\ rows = <<>> /\ WriterIdle /\ ParseIdle /\ TextIdle
    /\ \E reg \in Registries :
           /\ docs = [f \in FeedIds |-> reg[f].doc]
           /\ status = [f \in FeedIds |-> reg[f].status]
           /\ active = [f \in FeedIds |-> reg[f].active]
    /\ mode = "fetch_once"
    /\ pc = "fetch" /\ due = 0 /\ runsStarted = 1
    /\ NoRunYet
NextOnce ==
    \/ \E f \in FeedIds : FetchFails(f)
    \/ \E f \in FeedIds : ParseFails(f)
    \/ \E f \in FeedIds : InsertFails(f)
    \/ \E f \in FeedIds : FeedWritten(f)
SpecOnce == InitOnce /\ [][NextOnce]_vars

\* The timer is polled, and every fetch function returns: with a body, or
\* with a transport, parse or storage error.
FeedStep ==
    \E f \in FeedIds :
        FetchFails(f) \/ ParseFails(f) \/ InsertFails(f) \/ FeedWritten(f)
FairSpec == Spec /\ WF_vars(Tick) /\ WF_vars(FeedStep)

----------------------------------------------------------------------------
(* C1: calls for one id, in the order the storage completes them: the first
   that does not fail returns true, every later one that does not fail
   returns false, and once a call has returned true the table holds exactly
   one row with that id. *)
C1_InsertTwice ==
    \A j \in 1..Len(log) :
        LET id == log[j].item.id
            before == {i \in 1..(j - 1) :
                         log[i].item.id = id /\ log[i].result # "err"}
        IN  /\ (log[j].result # "err" /\ before = {}) => log[j].result = "true"
            /\ (log[j].result # "err" /\ before # {}) => log[j].result = "false"
            /\ log[j].result = "true" => Cardinality(RowsWithId(rows, id)) = 1

\* The same item inserted twice, one call after the other.
C1_Witness ==
    /\ Len(log) = 2
    /\ log[1].item = log[2].item
    /\ log[1].result = "true" /\ log[2].result = "false"
    /\ ~ log[2].raced
    /\ Len(rows) = 1

(* C2: under every interleaving of concurrent calls, at most one call per id
   returns true, exactly one when every call issued is completed and a call
   for that id did not fail, a call returns an error only on a storage
   fault, and the table never holds two rows with one id. *)
C2_ConcurrentSameId ==
    \A it \in WItems :
        LET calls == {j \in 1..Len(log) : log[j].item.id = it.id}
            won == {j \in calls : log[j].result = "true"}
        IN  /\ Cardinality(won) <= 1
            /\ Cardinality(RowsWithId(rows, it.id)) <= 1
            /\ (InFlight = {} /\ \E j \in calls : log[j].result # "err")
                   => Cardinality(won) = 1

\* Two calls for one id were in flight together: the loser was issued before
\* the winner's row existed.
C2_Witness ==
    \E i, j \in 1..Len(log) :
        /\ i < j
        /\ log[i].item.id = log[j].item.id
        /\ log[i].result = "true" /\ log[j].result = "false"
        /\ log[j].raced

----------------------------------------------------------------------------
(* C4: the id of an item built by RssItem::new depends on source, title and
   published_at only: two constructions that agree on these three agree on
   the id, whatever their link, their summary and the clock reading. *)
C4_IdDeterminedByKey ==
    \A i, j \in 1..Len(built) :
        (/\ built[i].source = built[j].source
         /\ built[i].title = built[j].title
         /\ built[i].published_at = built[j].published_at)
        => built[i].id = built[j].id

\* Two constructions with the same key and different link, summary and
\* clock reading (the second with published_at None, the clock supplying it).
C4_Witness ==
    /\ Len(built) = 2
    /\ built[1].source = built[2].source
    /\ built[1].title = built[2].title
    /\ built[1].published_at = built[2].published_at
    /\ built[1].link # built[2].link
    /\ built[1].summary # built[2].summary
----------------------------------------------------------------------------
\* Every publish-date element of every feed document is an RFC 2822 date-time.
AllDatesParse ==
    \A f \in FeedIds : \A i \in 1..Len(docs[f]) :
        (docs[f][i].k = "field" /\ docs[f][i].name = "pubDate")
            => parse_from_rfc2822(docs[f][i].text) # None

\* The scheduler is between two runs and a run has returned.
RunReturned == pc = "tick_wait" /\ runsFinished >= 1

(* C3, as claimed: the feed documents being unchanged and the first run
   having returned Ok, the table after every later run equals the table
   after the first run. *)
C3_RefetchNeverDuplicates ==
    (RunReturned /\ firstRows # None) => rows = firstRows[1]

(* C3, amended: the feed documents being unchanged, every publish date in
   them being an RFC 2822 date-time, and the first run having returned Ok,
   the table after every later run equals the table after the first run. *)
C3_RefetchNeverDuplicatesParsedDates ==
    (RunReturned /\ firstRows # None /\ AllDatesParse) => rows = firstRows[1]

\* A second run has written every feed again and the table is as it was.
C3_Witness ==
    /\ RunReturned /\ runsFinished >= 2 /\ lastResult = "ok"
    /\ firstRows # None /\ AllDatesParse
    /\ Len(rows) >= 2

(* C5: a run is best-effort: when it returns, every feed whose own fetch,
   parse and writes did not fail in it has its items written, and the
   failures it reports are those feeds that failed. *)
C5_BestEffortRun ==
    RunReturned =>
        /\ \A f \in FeedIds : f \notin failed => f \in written
        /\ (lastResult = "err") <=> (failed # {})

(* C6: on every tick the whole feed set is attempted: when the run of a
   tick returns, the first or a later one, after whatever failures, the
   fetch function of every feed has been called in it. *)
C6_WholeSetEveryTick ==
    RunReturned => fetched = FeedIds

(* C7: an error returned by a run does not end run_scheduler: when a run
   returns an error the scheduler is waiting for the next tick, and with a
   tick due it starts another run. *)
C7_ErrorNeverStopsScheduler ==
    /\ [][(runsFinished' = runsFinished + 1 /\ lastResult' = "err")
             => pc' = "tick_wait"]_vars
    /\ (lastResult = "err" /\ pc = "tick_wait" /\ due > 0) ~> (pc = "fetch")

\* A run is in flight that was started after a run returned an error.
C7_Witness ==
    /\ pc = "fetch" /\ lastResult = "err" /\ runsFinished >= 1
    /\ runsStarted = runsFinished + 1

(* C8: at most one run is in flight; no tick is skipped: every tick that has
   come due has started its run or is still due; and every tick that has
   come due is eventually followed by its run. *)
C8_OneRunNoTickSkipped ==
    /\ [](/\ runsStarted - runsFinished \in {0, 1}
          /\ (pc = "fetch") <=> (runsStarted = runsFinished + 1)
          /\ elapsed = runsStarted + due)
    /\ \A k \in 1..MaxTicks : (elapsed >= k) ~> (runsStarted >= k)

\* A deadline passed during a run, and the run of the last tick that came
\* due has started after that run returned.
C8_Witness ==
    /\ overrun /\ pc = "fetch" /\ runsStarted = elapsed /\ runsStarted >= 2
    /\ runsFinished = runsStarted - 1

(* C9: once the cancellation signal is received, no run is started. *)
C9_NoRunAfterCancel ==
    [][cancelled => runsStarted' = runsStarted]_vars

----------------------------------------------------------------------------
(* C10: in each dialect parser, the end tag of an entry that has no title,
   no link or no publish-date element since its start tag pushes no item and
   raises no error; the end tag of an entry that has all three pushes
   exactly one item; and either way the items of the entries before it stay
   in the result, in their order. *)
C10_IncompleteEntryDropped ==
    ptok.k = "end_item" =>
        /\ pst.result = "running"
        /\ ({"title", "link", "pubDate"} \ pseen # {}) => pst.items = pprev
        /\ (pentry = "closing" /\ {"title", "link", "pubDate"} \subseteq pseen)
               => Len(pst.items) = Len(pprev) + 1
        /\ Len(pst.items) >= Len(pprev)
        /\ SubSeq(pst.items, 1, Len(pprev)) = pprev

\* A complete entry has been returned and the end tag of a later entry with
\* title and publish date and no link has just been read.
C10_Witness ==
    /\ ptok.k = "end_item"
    /\ pentry = "closing"
    /\ pseen = {"title", "pubDate"}
    /\ Len(pprev) = 1
    /\ pst.items = pprev

----------------------------------------------------------------------------
\* The end tag just read closes an entry in which title, link and publish
\* date were read.
ClosedFullEntry ==
    /\ ptok.k = "end_item"
    /\ pentry = "closing"
    /\ {"title", "link", "pubDate"} \subseteq pseen

(* C11: in each dialect parser, the end tag of an entry with title, link and
   a publish-date text that is no RFC 2822 date-time pushes exactly one
   item, whose published_at is the clock reading of the parse, and the parse
   does not fail. *)
C11_UnparsableDateGetsNow ==
    (ClosedFullEntry /\ IsSome(pdate) /\ parse_from_rfc2822(pdate[1]) = None)
    => /\ pst.result = "running"
       /\ Len(pst.items) = Len(pprev) + 1
       /\ SubSeq(pst.items, 1, Len(pprev)) = pprev
       /\ pst.items[Len(pst.items)].published_at = pnow

\* An entry with the publish date "x" has been closed while the clock reads
\* an instant that is no publish date of the model.
C11_Witness ==
    /\ ClosedFullEntry
    /\ pdate = Some(<<"x">>)
    /\ pnow = 3
    /\ Len(pst.items) = 1
    /\ pst.items[1].published_at = 3

(* C12: the end tag of an entry in which a title and a link were read and no
   publish-date element pushes one item, whose published_at is the clock
   reading of the parse. *)
C12_AbsentDateGetsNow ==
    (/\ ptok.k = "end_item"
     /\ pentry = "closing"
     /\ {"title", "link"} \subseteq pseen
     /\ "pubDate" \notin pseen)
    => /\ Len(pst.items) = Len(pprev) + 1
       /\ pst.items[Len(pst.items)].published_at = pnow

(* C13: no item a parser returns has a title or a link that is empty after
   whitespace trimming. *)
C13_NoBlankTitleOrLink ==
    \A i \in 1..Len(pst.items) :
        /\ Trim(pst.items[i].title) # <<>>
        /\ Trim(pst.items[i].link) # <<>>

----------------------------------------------------------------------------
\* The text is one CDATA wrapper: the opening marker, a payload, the closing
\* marker.
IsWrapped(t) == Len(t) >= 2 /\ t[1] = CdataOpen /\ t[Len(t)] = CdataClose
Payload(t) == SubSeq(t, 2, Len(t) - 1)
HasMarker(t) == \E i \in 1..Len(t) : t[i] \in {CdataOpen, CdataClose}

(* C14: strip_cdata returns the payload of a text whose trimmed form is one
   CDATA wrapper around a payload, and returns every other text unchanged.
   A trimmed text that begins with the opening and ends with the closing
   marker and has further markers between them is either a wrapper around
   that payload or another text: the result is its payload or the input. *)
C14_StripCdata ==
    tout # None =>
        LET t == Trim(tin)
        IN  IF ~ IsWrapped(t) THEN tout[1] = tin
            ELSE IF ~ HasMarker(Payload(t)) THEN tout[1] = Payload(t)
            ELSE tout[1] \in {Payload(t), tin}

----------------------------------------------------------------------------
(* C15: a parse call whose token stream was malformed (the reader reported
   an error, to the loop of parse or inside read_text) returns an error, so
   that none of the items built from the document's earlier entries is
   returned. *)
C15_MalformedLosesFeed ==
    (pst.result # "running" /\ pbroken) => pst.result = "err"

----------------------------------------------------------------------------
(* C16: a feed whose fetch answered a non-success HTTP status has failed in
   the run, its response body was not passed to the parser, and its items
   were not written. *)
C16_NonSuccessStatusFailsFeed ==
    \A f \in fetched :
        ~ IsSuccess(status[f]) =>
            /\ f \in failed
            /\ f \notin parsedFeeds
            /\ f \notin written

(* C17: every item a feed's fetch function passes to the writer carries the
   feed's configured name as its source. *)
C17_SourceIsFeedName ==
    lastFeed # 0 =>
        \A i \in 1..Len(lastCalls) : lastCalls[i].source = <<Feeds[lastFeed].name>>

(* C18: the fetch function of a feed that is not active makes no writer
   call. *)
C18_InactiveFeedNotWritten ==
    (lastFeed # 0 /\ ~ active[lastFeed]) => lastCalls = <<>>

----------------------------------------------------------------------------
IsPrefix(s, t) == Len(s) <= Len(t) /\ SubSeq(t, 1, Len(s)) = s

\* The titles of the entries of a document, in document order
DocTitles(doc) ==
    LET fields == SelectSeq(doc, LAMBDA e : e.k = "field" /\ e.name = "title")
    IN  [i \in 1..Len(fields) |-> fields[i].text]

(* C19: in every run the fetch functions are called in the order of Feeds,
   and the items one fetch function passes to the writer are those of the
   document's entries, in document order. *)
C19_WriterCallOrder ==
    /\ pc = "fetch" => fetched = 1..(feedIdx - 1)
    /\ lastFeed # 0 =>
           IsPrefix([i \in 1..Len(lastCalls) |-> lastCalls[i].title],
                    DocTitles(docs[lastFeed]))

\* In a second run, a feed whose document has two entries has passed both
\* to the writer.
C19_Witness ==
    /\ runsFinished >= 1 /\ pc = "fetch"
    /\ lastFeed # 0 /\ docs[lastFeed] = DocTwo
    /\ Len(lastCalls) = 2
    /\ lastCalls[1].title = <<"a">> /\ lastCalls[2].title = <<"b">>

(* C20: a step in which an insert fails on a storage error leaves every row
   of the table as it was and in its place: rows of earlier runs, of the
   feeds before, and of the feed's earlier items. *)
C20_StorageErrorKeepsRows ==
    [][(failed' # failed /\ lastCalls' # <<>>) => IsPrefix(rows, rows')]_vars

\* The second insert of a feed failed in a second run, after its first item
\* and the rows of the feeds before it were written.
C20_Witness ==
    /\ runsFinished >= 2 /\ lastResult = "err"
    /\ lastFeed \in failed
    /\ Len(lastCalls) = 2
    /\ firstRows # None /\ IsPrefix(firstRows[1], rows) /\ Len(rows) >= 2

----------------------------------------------------------------------------
(* C21: in each dialect parser, an event the parser has no arm for (an
   element with another name, text, a comment) changes nothing; a title,
   link, description or pubDate element read while no <item> is open in the
   document changes nothing, so it reaches no item; and the end tag of an
   entry with title, link and publish date pushes its item whatever was read
   around and inside it. *)
C21_OutsideFieldsIgnored ==
    /\ [][ptok'.k = "other" => pst' = pst]_vars
    /\ [][(ptok'.k \in {"field", "unterminated"} /\ popen = 0) => pst' = pst]_vars
    /\ [](ClosedFullEntry => Len(pst.items) = Len(pprev) + 1)

\* After an entry titled "a" was returned, the channel's title "b" is read
\* with no <item> open.
C21_Witness ==
    /\ ptok = Tok("field", "title", <<"b">>)
    /\ popen = 0
    /\ Len(pst.items) = 1
    /\ pst.items[1].title = <<"a">>

----------------------------------------------------------------------------
(* C22: the fetch-once command calls fetch_all_and_insert once; the process
   exits when that run returns, with status 1 if and only if the run
   returned an error, which it does if and only if a feed failed in it; it
   exits with status 0 when every feed was fetched, parsed and written. *)
C22_FetchOnceExitCode ==
    /\ runsStarted = 1 /\ runsFinished <= 1
    /\ (pc \in {"exit_0", "exit_1"}) <=> (runsFinished = 1)
    /\ runsFinished = 1 =>
           /\ (pc = "exit_1") <=> (lastResult = "err")
           /\ (lastResult = "err") <=> (failed # {})
           /\ written = FeedIds => pc = "exit_0"
           /\ pc = "exit_0" => written = FeedIds

\* The run has failed at a later feed, after the feeds before it were
\* written, and the process has exited with status 1.
C22_Witness ==
    /\ pc = "exit_1"
    /\ written # {} /\ failed # {}
    /\ runsFinished = 1

----------------------------------------------------------------------------
(* C23: a writer call that returns false modifies nothing in storage, and
   the row stored under an id is the item of the call that returned true for
   it, whatever link and summary later calls for that id carried. *)
C23_FirstWriterWins ==
    /\ [][(Len(log') = Len(log) + 1 /\ log'[Len(log')].result = "false")
             => rows' = rows]_vars
    /\ [](\A j \in 1..Len(log) :
             log[j].result = "true" =>
                 \A i \in RowsWithId(rows, log[j].item.id) : rows[i] = log[j].item)

\* A call for a stored id with another link and a summary has returned
\* false, and the row is the first call's item.
C23_Witness ==
    /\ Len(log) = 2
    /\ log[1].result = "true" /\ log[2].result = "false"
    /\ log[1].item.id = log[2].item.id
    /\ log[1].item.link # log[2].item.link
    /\ log[1].item.summary # log[2].item.summary
    /\ rows = <<log[1].item>>

----------------------------------------------------------------------------
(* C24: in each dialect parser, every <item> start tag clears the captured
   title, link, description and publish date; and an item pushed at an end
   tag has its title, link and publish date, and its summary if it has one,
   from elements read since the last <item> start tag, hence since the start
   tag of its own entry: its publish date is that of the entry's last
   pubDate element.  An entry that lacks a field gets none from an entry
   before it. *)
C24_FieldsResetPerEntry ==
    /\ [][ptok'.k = "start_item" =>
             /\ pst'.title = None /\ pst'.link = None
             /\ pst'.description = None /\ pst'.published_at = None]_vars
    /\ []((ptok.k = "end_item" /\ Len(pst.items) > Len(pprev)) =>
             LET it == pst.items[Len(pst.items)]
             IN  /\ {"title", "link", "pubDate"} \subseteq pseen
                 /\ it.summary # None => "description" \in pseen
                 /\ pentry = "closing" =>
                        /\ pdate # None
                        /\ it.published_at =
                               UnwrapOrElse(parse_from_rfc2822(pdate[1]), pnow))

\* After an entry with title, link and publish date, the end tag of an
\* entry with link and publish date and no title has been read: no item
\* was pushed for it.
C24_Witness ==
    /\ ptok.k = "end_item"
    /\ pentry = "closing"
    /\ pseen = {"link", "pubDate"}
    /\ Len(pprev) = 1
    /\ pst.items = pprev

----------------------------------------------------------------------------
(* C25: two calls of one parser on one document, made at different times,
   have pushed the same items in the same order (equal in id, source, title,
   link, summary and published_at) and have the same result, as long as the
   publish date of every item pushed parsed as an RFC 2822 date-time. *)
C25_ParseDeterministic ==
    ~ pclocked => (pst2.items = pst.items /\ pst2.result = pst.result)

\* Both calls, made at different times, have returned Ok with the one item
\* of the document.
C25_Witness ==
    /\ ~ pclocked
    /\ pnow # pnow2
    /\ pst.result = "ok" /\ pst2.result = "ok"
    /\ Len(pst.items) = 1 /\ pst2.items = pst.items

----------------------------------------------------------------------------
(* C26, as claimed: two items built by RssItem::new with the same
   published_at that differ in source or in title have different ids. *)
C26_IdInjectiveOnSourceTitle ==
    \A i, j \in 1..Len(built) :
        (/\ built[i].published_at = built[j].published_at
         /\ (built[i].source # built[j].source \/ built[i].title # built[j].title))
        => built[i].id # built[j].id

(* C26, amended: two items built by RssItem::new with the same published_at
   have the same id exactly when the bytes of source followed by the bytes
   of title are the same string; characters moved from the end of source to
   the start of title leave the id as it was. *)
C26_IdOfConcatenation ==
    \A i, j \in 1..Len(built) :
        built[i].published_at = built[j].published_at =>
            ((built[i].id = built[j].id)
                <=> (built[i].source \o built[i].title
                        = built[j].source \o built[j].title))

\* ("ab", "c") and ("a", "bc") with one published_at: one id.
C26_Witness ==
    /\ Len(built) = 2
    /\ built[1].source = <<"a", "b">> /\ built[1].title = <<"c">>
    /\ built[2].source = <<"a">> /\ built[2].title = <<"b", "c">>
    /\ built[1].published_at = built[2].published_at
    /\ built[1].id = built[2].id

----------------------------------------------------------------------------
(* C27: until run_scheduler has started its first run it is waiting on a
   tick that is already due (the interval's first tick completes at once);
   every run starts by consuming one due tick; and run k starts no earlier
   than the interval's deadline k, which is (k - 1) * 60 seconds after the
   start. *)
C27_RunsFollowTicks ==
    /\ [](runsStarted = 0 => (pc = "tick_wait" /\ due >= 1))
    /\ [][runsStarted' # runsStarted =>
             (runsStarted' = runsStarted + 1 /\ due >= 1 /\ due' = due - 1)]_vars
    /\ [](runsStarted >= 1 => LastDeadline >= (runsStarted - 1) * IntervalSecs)

\* The first run returned before the second deadline; the second run has
\* started after that deadline passed, 60 seconds after the start.
C27_Witness ==
    /\ runsStarted = 2 /\ runsFinished = 1 /\ pc = "fetch"
    /\ ~ overrun
    /\ LastDeadline = IntervalSecs
    /\ due = 0

====
